---- MODULE Spec2Model ----
(***************************************************************************)
(* Label filtering, remapping and grouped reduction of tobac_flow          *)
(* (src/tobac_flow/analysis.py), with the numpy / scipy.ndimage            *)
(* primitives the functions are built from written out as operators,       *)
(* followed by edge_watershed and detect_growth_markers of                 *)
(* src/tobac_flow/detection.py.                                            *)
(*                                                                         *)
(* An array is a record [shape, data]: shape is the numpy shape (a tuple   *)
(* of one to three axis lengths, axis 0 being time) and data is the        *)
(* row-major flattening, so ravel(a) is a.data and flat positions are      *)
(* 1..size.  Python's 0-based positions p are the model's p + 1.           *)
(***************************************************************************)
EXTENDS Integers, Sequences, FiniteSets, Bags, TLC

\* ---------------------------------------------------------------- bounds
MaxSize == 3
MaxLabel == 3
MaxMasks == 2

\* The value a float NaN becomes when numpy stores it into an int32 array.
\* The C cast is undefined: x86 builds give INT_MIN, ARM builds give 0.
IntMin == -2147483647 - 1
NanToInt == {IntMin, 0}

\* ---------------------------------------------------------------- values
None == [none |-> TRUE, v |-> 0]
Some(x) == [none |-> FALSE, v |-> x]

\* float64 elements: a number or NaN
NaN == [nan |-> TRUE, v |-> 0]
F(x) == [nan |-> FALSE, v |-> x]

Return(x) == [kind |-> "return", value |-> x]
Raise(e, m) == [kind |-> "raise", exc |-> e, msg |-> m]
NotCalled == [kind |-> "none"]

\* ---------------------------------------------------------------- arrays
RECURSIVE Prod(_)
Prod(s) == IF s = <<>> THEN 1 ELSE Head(s) * Prod(Tail(s))

\* one- and two-dimensional shapes of at most MaxSize elements
Shapes ==
  {<<n>> : n \in 1..MaxSize}
    \cup {s \in {<<t, x>> : t \in 1..MaxSize, x \in 1..MaxSize} : Prod(s) <= MaxSize}

ArraysOf(shape, vals) == {[shape |-> shape, data |-> d] : d \in [1..Prod(shape) -> vals]}

LabelArrays == UNION {ArraysOf(s, 0..MaxLabel) : s \in Shapes}
\* a mask has the shape of the label array it is used with
MasksLike(a) == ArraysOf(a.shape, BOOLEAN)

Idx(n) == [i \in 1..n |-> i]

RECURSIVE SeqMax(_)
SeqMax(s) ==
  IF Len(s) = 1 THEN s[1]
  ELSE LET m == SeqMax(Tail(s)) IN IF s[1] >= m THEN s[1] ELSE m

\* np.nanmax(labels) / labels.max() of an integer array
nanmax(a) == SeqMax(a.data)

\* flat positions (ascending) of the elements equal to v
Where(data, v) == SelectSeq(Idx(Len(data)), LAMBDA p : data[p] = v)

\* index along axis k (0-based) of flat position p, row-major
AxisIndex(shape, k, p) ==
  LET after == Prod(SubSeq(shape, k + 2, Len(shape)))
  IN  ((p - 1) \div after) % shape[k + 1]

SetMin(S) == CHOOSE x \in S : \A y \in S : x <= y
SetMax(S) == CHOOSE x \in S : \A y \in S : x >= y

\* scipy.ndimage.find_objects(labels): one entry per label 1..labels.max();
\* the bounding slices of the label on every axis, or None when the label
\* does not occur.
find_objects(labels) ==
  LET M == nanmax(labels)
      box(l) ==
        LET ps == {p \in 1..Len(labels.data) : labels.data[p] = l}
        IN  IF ps = {} THEN [none |-> TRUE, slices |-> <<>>]
            ELSE [none |-> FALSE,
                  slices |-> [k \in 1..Len(labels.shape) |->
                     LET ix == {AxisIndex(labels.shape, k - 1, p) : p \in ps}
                     IN  [start |-> SetMin(ix), stop |-> SetMax(ix) + 1]]]
  IN  [l \in 1..(IF M < 1 THEN 0 ELSE M) |-> box(l)]

\* object_lengths taking stop as the last index (stop - start - 1)
object_lengths_inclusive(labels) ==
  LET objs == find_objects(labels)
  IN  IF \E l \in 1..Len(objs) : objs[l].none
      THEN Raise("TypeError", "'NoneType' object is not subscriptable")
      ELSE Return([l \in 1..Len(objs) |->
                     objs[l].slices[1].stop - objs[l].slices[1].start - 1])

\* [o[0].stop-o[0].start for o in ndi.find_objects(labels)]
\* subscripting None raises TypeError
object_lengths(labels) ==
  LET objs == find_objects(labels)
  IN  IF \E l \in 1..Len(objs) : objs[l].none
      THEN Raise("TypeError", "'NoneType' object is not subscriptable")
      ELSE Return([l \in 1..Len(objs) |->
                     objs[l].slices[1].stop - objs[l].slices[1].start])

\* np.cumsum of an integer (or boolean, as 0/1) sequence
RECURSIVE cumsum(_)
cumsum(s) ==
  IF s = <<>> THEN <<>>
  ELSE LET n == Len(s)
           c == cumsum(SubSeq(s, 1, n - 1))
       IN  Append(c, (IF n = 1 THEN 0 ELSE c[n - 1]) + s[n])

B2I(b) == IF b THEN 1 ELSE 0

\* np.bincount(labels.ravel()): occurrences of every value 0..max
bincount(data) == [v \in 1..(SeqMax(data) + 1) |-> Len(Where(data, v - 1))]

\* np.argsort(labels.ravel()): the flat positions ordered by label value
\* (the order among equal labels is the sort's own; the reducers modelled
\* below do not depend on it)
RECURSIVE argsort_from(_, _, _)
argsort_from(data, v, top) ==
  IF v > top THEN <<>> ELSE Where(data, v) \o argsort_from(data, v + 1, top)
argsort(data) == argsort_from(data, 0, SeqMax(data))

\* remap[labels] for remap = [0] + tail
TakeRemap(labels, tail) ==
  [shape |-> labels.shape,
   data |-> [p \in 1..Len(labels.data) |->
               IF labels.data[p] = 0 THEN 0 ELSE tail[labels.data[p]]]]

\* ------------------------------------------------- scipy / numpy pieces
\* np.any over the elements of input at the flat positions ps
any_at(input, ps) == \E k \in 1..Len(ps) : input.data[ps[k]]

\* storing a Python value (None or a number) into an array of out_dtype;
\* out_dtype None makes np.empty a float64 array, where None is stored as NaN
store(out_dtype, x) ==
  IF out_dtype = "bool" THEN (~x.none /\ x.v # 0)
  ELSE IF x.none THEN NaN ELSE F(x.v)

\* ndi.labeled_comprehension(input, labels, range(1, max+1), np.any,
\*                           out_dtype, default)
\* index.min() of an empty index raises; a label of the index without
\* elements keeps the default, func is not called for it.
labeled_comprehension(input, labels, out_dtype, default) ==
  LET M == nanmax(labels)
  IN  IF M < 1
      THEN Raise("ValueError",
                 "zero-size array to reduction operation minimum which has no identity")
      ELSE Return([l \in 1..M |->
             LET ps == Where(labels.data, l)
             IN  IF ps = <<>> THEN store(out_dtype, default)
                 ELSE store(out_dtype, Some(B2I(any_at(input, ps))))])

\* boolean ndarrays: ndim 0 is a numpy scalar, ndim 1 an array
BArr(s) == [ndim |-> 1, v |-> s]
BScalar(b) == [ndim |-> 0, v |-> <<b>>]

\* truth value numpy gives a float: NaN and every nonzero number are true
truthy(f) == f.nan \/ f.v # 0

\* np.logical_and(a, b) with a an array and b an array or a scalar (broadcast)
logical_and(a, b) ==
  BArr([l \in 1..Len(a.v) |-> a.v[l] /\ (IF b.ndim = 0 THEN b.v[1] ELSE b.v[l])])

\* np.logical_and.reduce(list of boolean arrays of length M) over axis 0;
\* the reduction of an empty list is the identity, the scalar True
logical_and_reduce(whs, M) ==
  IF whs = <<>> THEN BScalar(TRUE)
  ELSE BArr([l \in 1..M |-> \A k \in 1..Len(whs) : whs[k][l]])

\* np.cumsum(wh)*wh for boolean wh (cumsum of a scalar is a 1-element array)
cumsum_times(wh) ==
  LET ints == [l \in 1..Len(wh.v) |-> B2I(wh.v[l])]
      cs == cumsum(ints)
  IN  [l \in 1..Len(ints) |-> cs[l] * ints[l]]

\* np.cumsum(wh)*wh for float64 wh: NaN propagates through sum and product
RECURSIVE fcumsum(_)
fcumsum(s) ==
  IF s = <<>> THEN <<>>
  ELSE LET n == Len(s)
           c == fcumsum(SubSeq(s, 1, n - 1))
       IN  Append(c, IF n = 1 THEN s[1]
                     ELSE IF c[n - 1].nan \/ s[n].nan THEN NaN
                     ELSE F(c[n - 1].v + s[n].v))
fcumsum_times(wh) ==
  LET cs == fcumsum(wh)
  IN  [l \in 1..Len(wh) |->
         IF cs[l].nan \/ wh[l].nan THEN NaN ELSE F(cs[l].v * wh[l].v)]

\* float64 -> labels.dtype on assignment; nan_int is what the build makes of NaN
to_int(fs, nan_int) == [l \in 1..Len(fs) |-> IF fs[l].nan THEN nan_int ELSE fs[l].v]

\* remap = np.zeros(max+1); remap[1:] = vals; return remap[labels]
\* vals of length 1 is broadcast over remap[1:]
remap_and_take(labels, vals) ==
  LET M == nanmax(labels)
  IN  IF Len(vals) = M THEN Return(TakeRemap(labels, vals))
      ELSE IF Len(vals) = 1 THEN Return(TakeRemap(labels, [l \in 1..M |-> vals[1]]))
      ELSE Raise("ValueError", "could not broadcast input array")

\* ------------------------------------------------------------ analysis.py
\* remap_labels numbering the kept labels from 0 (np.arange(np.sum(locations)))
remap_labels_from_zero(labels, locations) ==
  LET M == nanmax(labels)
  IN  IF Len(locations) # M
      THEN Raise("IndexError", "boolean index did not match indexed array")
      ELSE LET cs == cumsum([l \in 1..M |-> B2I(locations[l])])
           IN  Return(TakeRemap(labels,
                        [l \in 1..M |-> IF locations[l] THEN cs[l] - 1 ELSE 0]))

remap_labels(labels, locations) ==
  LET M == nanmax(labels)
  IN  IF Len(locations) # M
      THEN Raise("IndexError", "boolean index did not match indexed array")
      ELSE LET cs == cumsum([l \in 1..M |-> B2I(locations[l])])
           IN  Return(TakeRemap(labels,
                        [l \in 1..M |-> IF locations[l] THEN cs[l] ELSE 0]))

filter_labels_by_length(labels, min_length) ==
  LET ol == object_lengths(labels)
  IN  IF ol.kind = "raise" THEN ol
      ELSE LET wh == BArr([l \in 1..Len(ol.value) |-> ol.value[l] >= min_length])
           IN  remap_and_take(labels, cumsum_times(wh))

filter_labels_by_mask(labels, mask, nan_int) ==
  LET wh == labeled_comprehension(mask, labels, "float64", None)
  IN  IF wh.kind = "raise" THEN wh
      ELSE remap_and_take(labels, to_int(fcumsum_times(wh.value), nan_int))

filter_labels_by_length_and_mask(labels, mask, min_length) ==
  LET ol == object_lengths(labels)
      lc == labeled_comprehension(mask, labels, "float64", None)
  IN  IF ol.kind = "raise" THEN ol
      ELSE IF lc.kind = "raise" THEN lc
      ELSE LET wh == logical_and(
                       BArr([l \in 1..Len(ol.value) |-> ol.value[l] >= min_length]),
                       BArr([l \in 1..Len(lc.value) |-> truthy(lc.value[l])]))
           IN  remap_and_take(labels, cumsum_times(wh))

\* the type test written as isinstance(masks, (list, tuple))
is_list_or_tuple(masks) == masks.type \in {"list", "tuple"}

\* masks is [type, items]: the Python type of the argument and its members
is_list(masks) == masks.type = "list"

\* [ndi.labeled_comprehension(m, labels, ..., np.any, np.bool8, 0) for m in masks]
comprehensions(labels, masks) ==
  LET lcs == [k \in 1..Len(masks.items) |->
                labeled_comprehension(masks.items[k], labels, "bool", Some(0))]
  IN  IF \E k \in 1..Len(lcs) : lcs[k].kind = "raise"
      THEN lcs[CHOOSE k \in 1..Len(lcs) :
                 lcs[k].kind = "raise" /\ \A j \in 1..(k - 1) : lcs[j].kind # "raise"]
      ELSE Return([k \in 1..Len(lcs) |-> lcs[k].value])

filter_labels_by_multimask(labels, masks) ==
  IF ~is_list(masks)
  THEN Raise("ValueError", "masks input must be a list of masks to process")
  ELSE LET lcs == comprehensions(labels, masks)
       IN  IF lcs.kind = "raise" THEN lcs
           ELSE LET wh == logical_and_reduce(lcs.value, nanmax(labels))
                IN  remap_and_take(labels, cumsum_times(wh))

filter_labels_by_length_and_multimask(labels, masks, min_length) ==
  IF ~is_list(masks)
  THEN Raise("ValueError", "masks input must be a list of masks to process")
  ELSE LET ol == object_lengths(labels)
           lcs == comprehensions(labels, masks)
       IN  IF ol.kind = "raise" THEN ol
           ELSE IF lcs.kind = "raise" THEN lcs
           ELSE LET wh == logical_and(
                            BArr([l \in 1..Len(ol.value) |-> ol.value[l] >= min_length]),
                            logical_and_reduce(lcs.value, nanmax(labels)))
                IN  remap_and_take(labels, cumsum_times(wh))

\* labels.ravel()[ps] = v
SetAt(data, ps, v) ==
  [p \in 1..Len(data) |-> IF \E k \in 1..Len(ps) : ps[k] = p THEN v ELSE data[p]]

\* the slice taken one bin too early, args[bins[i-1]:bins[i]] (label i)
run_of_previous(bins, args, i) ==
  SubSeq(args, (IF i = 0 THEN 0 ELSE bins[i]) + 1, bins[i + 1])

\* args[bins[i]:bins[i+1]], the flat positions of label i+1 (i as in Python)
run_of(bins, args, i) == SubSeq(args, bins[i + 1] + 1, bins[i + 2])

\* the for loop of filter_labels_by_length_legacy from iteration i on
RECURSIVE length_legacy_loop(_, _, _, _, _, _, _)
length_legacy_loop(data, bins, args, lens, min_length, i, counter) ==
  IF i >= Len(bins) - 1 THEN data
  ELSE IF bins[i + 2] > bins[i + 1]
  THEN IF lens[i + 1] < min_length
       THEN length_legacy_loop(SetAt(data, run_of(bins, args, i), 0),
                               bins, args, lens, min_length, i + 1, counter)
       ELSE length_legacy_loop(SetAt(data, run_of(bins, args, i), counter),
                               bins, args, lens, min_length, i + 1, counter + 1)
  ELSE length_legacy_loop(data, bins, args, lens, min_length, i + 1, counter)

filter_labels_by_length_legacy(labels, min_length) ==
  LET bins == cumsum(bincount(labels.data))
      args == argsort(labels.data)
      ol == object_lengths(labels)
  IN  IF ol.kind = "raise" THEN ol
      ELSE Return([shape |-> labels.shape,
                   data |-> length_legacy_loop(labels.data, bins, args, ol.value,
                                               min_length, 0, 1)])

\* the for loop of filter_labels_by_length_and_mask_legacy from iteration i on
RECURSIVE length_and_mask_legacy_loop(_, _, _, _, _, _, _, _)
length_and_mask_legacy_loop(data, mask, bins, args, lens, min_length, i, counter) ==
  IF i >= Len(bins) - 1 THEN data
  ELSE IF bins[i + 2] > bins[i + 1]
  THEN IF lens[i + 1] >= min_length /\ any_at(mask, run_of(bins, args, i))
       THEN length_and_mask_legacy_loop(SetAt(data, run_of(bins, args, i), counter),
              mask, bins, args, lens, min_length, i + 1, counter + 1)
       ELSE length_and_mask_legacy_loop(SetAt(data, run_of(bins, args, i), 0),
              mask, bins, args, lens, min_length, i + 1, counter)
  ELSE length_and_mask_legacy_loop(data, mask, bins, args, lens, min_length,
                                   i + 1, counter)

filter_labels_by_length_and_mask_legacy(labels, mask, min_length) ==
  LET bins == cumsum(bincount(labels.data))
      args == argsort(labels.data)
      ol == object_lengths(labels)
  IN  IF ol.kind = "raise" THEN ol
      ELSE Return([shape |-> labels.shape,
                   data |-> length_and_mask_legacy_loop(labels.data, mask, bins, args,
                                                        ol.value, min_length, 0, 1)])

\* the for loop of filter_labels_by_length_and_multimask_legacy from iteration i on
RECURSIVE length_and_multimask_legacy_loop(_, _, _, _, _, _, _, _)
length_and_multimask_legacy_loop(data, masks, bins, args, lens, min_length, i, counter) ==
  IF i >= Len(bins) - 1 THEN data
  ELSE IF bins[i + 2] > bins[i + 1]
  THEN IF lens[i + 1] >= min_length
          /\ \A k \in 1..Len(masks.items) : any_at(masks.items[k], run_of(bins, args, i))
       THEN length_and_multimask_legacy_loop(SetAt(data, run_of(bins, args, i), counter),
              masks, bins, args, lens, min_length, i + 1, counter + 1)
       ELSE length_and_multimask_legacy_loop(SetAt(data, run_of(bins, args, i), 0),
              masks, bins, args, lens, min_length, i + 1, counter)
  ELSE length_and_multimask_legacy_loop(data, masks, bins, args, lens, min_length,
                                        i + 1, counter)

filter_labels_by_length_and_multimask_legacy(labels, masks, min_length) ==
  IF ~is_list(masks)
  THEN Raise("ValueError", "masks input must be a list of masks to process")
  ELSE LET bins == cumsum(bincount(labels.data))
           args == argsort(labels.data)
           ol == object_lengths(labels)
       IN  IF ol.kind = "raise" THEN ol
           ELSE Return([shape |-> labels.shape,
                        data |-> length_and_multimask_legacy_loop(labels.data, masks,
                                   bins, args, ol.value, min_length, 0, 1)])

\* -------------------------------------------------- grouped reductions
\* a.ravel()[ps]
take(data, ps) == [k \in 1..Len(ps) |-> data[ps[k]]]

RECURSIVE SeqSum(_)
SeqSum(s) == IF s = <<>> THEN 0 ELSE Head(s) + SeqSum(Tail(s))

\* the reducers handed to apply_func_to_labels: len, np.sum, np.max
Funcs == {"count", "sum", "max"}
apply(func, vals) ==
  IF func = "count" THEN Len(vals)
  ELSE IF func = "sum" THEN SeqSum(vals)
  ELSE SeqMax(vals)

\* the two-argument reducers of apply_weighted_func_to_labels
WeightedFuncs == {"weighted_sum"}
apply2(func, vals, ws) == SeqSum([k \in 1..Len(vals) |-> vals[k] * ws[k]])

\* Python indices i of range(bins.size-1) whose group has members
nonempty_groups(bins) ==
  SelectSeq([k \in 1..(Len(bins) - 1) |-> k - 1], LAMBDA i : bins[i + 2] > bins[i + 1])

\* calls: the groups the reducer was invoked on, in order
ReturnCalls(x, c) == [kind |-> "return", value |-> x, calls |-> c]
RaiseCalls(e, m, c) == [kind |-> "raise", exc |-> e, msg |-> m, calls |-> c]

apply_func_to_labels(labels, field, func) ==
  IF labels.shape # field.shape
  THEN RaiseCalls("ValueError", "Input labels and field do not have the same shape", <<>>)
  ELSE LET bins == cumsum(bincount(labels.data))
           args == argsort(labels.data)
           ne == nonempty_groups(bins)
       IN  ReturnCalls(
             [k \in 1..(Len(bins) - 1) |->
                IF bins[k + 1] > bins[k]
                THEN Some(apply(func, take(field.data, run_of(bins, args, k - 1))))
                ELSE None],
             [j \in 1..Len(ne) |->
                [i |-> ne[j], values |-> take(field.data, run_of(bins, args, ne[j]))]])

\* only the field's shape is compared; weights.ravel()[...] raises IndexError
\* at the first group holding a position beyond the end of weights
apply_weighted_func_to_labels(labels, field, weights, func) ==
  IF labels.shape # field.shape
  THEN RaiseCalls("ValueError", "Input labels and field do not have the same shape", <<>>)
  ELSE LET bins == cumsum(bincount(labels.data))
           args == argsort(labels.data)
           ne == nonempty_groups(bins)
           n == Len(weights.data)
           bad(j) == \E k \in 1..Len(run_of(bins, args, ne[j])) :
                        run_of(bins, args, ne[j])[k] > n
           called == IF \E j \in 1..Len(ne) : bad(j)
                     THEN (CHOOSE j \in 1..Len(ne) :
                             bad(j) /\ \A h \in 1..(j - 1) : ~bad(h)) - 1
                     ELSE Len(ne)
           calls == [j \in 1..called |->
                       [i |-> ne[j],
                        values |-> take(field.data, run_of(bins, args, ne[j])),
                        weights |-> take(weights.data, run_of(bins, args, ne[j]))]]
       IN  IF called < Len(ne)
           THEN RaiseCalls("IndexError", "index is out of bounds", calls)
           ELSE ReturnCalls(
                  [k \in 1..(Len(bins) - 1) |->
                     IF bins[k + 1] > bins[k]
                     THEN Some(apply2(func, take(field.data, run_of(bins, args, k - 1)),
                                      take(weights.data, run_of(bins, args, k - 1))))
                     ELSE None],
                  calls)

\* ------------------------------------------------------------ the caller
\* labels: the caller's label array (the legacy filters overwrite it)
\* call:   the operation invoked and the arguments it was given
\* result: what the call returned or raised
VARIABLES labels, call, result
vars == <<labels, call, result>>

MinLengths == 1..MaxSize

SeqsUpTo(S, n) == UNION {[1..k -> S] : k \in 0..n}

\* what a caller may pass as masks: a list or a tuple of masks, or one mask array
MaskArgs(a) ==
  {[type |-> t, items |-> ms] : t \in {"list", "tuple"}, ms \in SeqsUpTo(MasksLike(a), MaxMasks)}
    \cup {[type |-> "ndarray", items |-> <<m>>] : m \in MasksLike(a)}

Idle == call.op = "none"

Init ==
  /\ labels \in LabelArrays
  /\ call = [op |-> "none"]
  /\ result = NotCalled

FilterLabelsByLength ==
  /\ Idle
  /\ \E ml \in MinLengths :
       /\ call' = [op |-> "filter_labels_by_length", labels |-> labels, min_length |-> ml]
       /\ result' = filter_labels_by_length(labels, ml)
  /\ UNCHANGED labels

FilterLabelsByMask ==
  /\ Idle
  /\ \E m \in MasksLike(labels), c \in NanToInt :
       /\ call' = [op |-> "filter_labels_by_mask", labels |-> labels, mask |-> m]
       /\ result' = filter_labels_by_mask(labels, m, c)
  /\ UNCHANGED labels

FilterLabelsByLengthAndMask ==
  /\ Idle
  /\ \E m \in MasksLike(labels), ml \in MinLengths :
       /\ call' = [op |-> "filter_labels_by_length_and_mask", labels |-> labels,
                   mask |-> m, min_length |-> ml]
       /\ result' = filter_labels_by_length_and_mask(labels, m, ml)
  /\ UNCHANGED labels

FilterLabelsByMultimask ==
  /\ Idle
  /\ \E ms \in MaskArgs(labels) :
       /\ call' = [op |-> "filter_labels_by_multimask", labels |-> labels, masks |-> ms]
       /\ result' = filter_labels_by_multimask(labels, ms)
  /\ UNCHANGED labels

FilterLabelsByLengthAndMultimask ==
  /\ Idle
  /\ \E ms \in MaskArgs(labels), ml \in MinLengths :
       /\ call' = [op |-> "filter_labels_by_length_and_multimask", labels |-> labels,
                   masks |-> ms, min_length |-> ml]
       /\ result' = filter_labels_by_length_and_multimask(labels, ms, ml)
  /\ UNCHANGED labels

\* the legacy filters return the array they were given, overwritten in place
InPlace(r) == IF r.kind = "return" THEN r.value ELSE labels

FilterLabelsByLengthLegacy ==
  /\ Idle
  /\ \E ml \in MinLengths :
       /\ call' = [op |-> "filter_labels_by_length_legacy", labels |-> labels,
                   min_length |-> ml]
       /\ result' = filter_labels_by_length_legacy(labels, ml)
       /\ labels' = InPlace(result')

FilterLabelsByLengthAndMaskLegacy ==
  /\ Idle
  /\ \E m \in MasksLike(labels), ml \in MinLengths :
       /\ call' = [op |-> "filter_labels_by_length_and_mask_legacy", labels |-> labels,
                   mask |-> m, min_length |-> ml]
       /\ result' = filter_labels_by_length_and_mask_legacy(labels, m, ml)
       /\ labels' = InPlace(result')

FilterLabelsByLengthAndMultimaskLegacy ==
  /\ Idle
  /\ \E ms \in MaskArgs(labels), ml \in MinLengths :
       /\ call' = [op |-> "filter_labels_by_length_and_multimask_legacy",
                   labels |-> labels, masks |-> ms, min_length |-> ml]
       /\ result' = filter_labels_by_length_and_multimask_legacy(labels, ms, ml)
       /\ labels' = InPlace(result')

Next ==
  \/ FilterLabelsByLength
  \/ FilterLabelsByMask
  \/ FilterLabelsByLengthAndMask
  \/ FilterLabelsByMultimask
  \/ FilterLabelsByLengthAndMultimask
  \/ FilterLabelsByLengthLegacy
  \/ FilterLabelsByLengthAndMaskLegacy
  \/ FilterLabelsByLengthAndMultimaskLegacy

Spec == Init /\ [][Next]_vars

\* ------------------------------------------------------- remap_labels
Locations == SeqsUpTo(BOOLEAN, MaxLabel)

RemapLabels ==
  /\ Idle
  /\ \E loc \in Locations :
       /\ call' = [op |-> "remap_labels", labels |-> labels, locations |-> loc,
                   again |-> FALSE, first |-> loc]
       /\ result' = remap_labels(labels, loc)
  /\ UNCHANGED labels

\* the caller hands the returned array to remap_labels once more, keeping
\* every label
RemapAgain ==
  /\ call.op = "remap_labels" /\ ~call.again /\ result.kind = "return"
  /\ LET keep == [l \in 1..nanmax(result.value) |-> TRUE]
     IN  /\ labels' = result.value
         /\ call' = [op |-> "remap_labels", labels |-> result.value, locations |-> keep,
                     again |-> TRUE, first |-> call.locations]
         /\ result' = remap_labels(result.value, keep)

NextRemap == RemapLabels \/ RemapAgain

SpecRemap == Init /\ [][NextRemap]_vars

\* ------------------------------------------------ length filters alone
NextLength == FilterLabelsByLength \/ FilterLabelsByLengthLegacy

SpecLength == Init /\ [][NextLength]_vars

\* ------------------------------------------------ multi-mask filters alone
NextMulti ==
  \/ FilterLabelsByMultimask
  \/ FilterLabelsByLengthAndMultimask
  \/ FilterLabelsByLengthAndMultimaskLegacy

SpecMulti == Init /\ [][NextMulti]_vars

\* ------------------------------------------------ grouped reductions
FieldVals == {10, 20}
WeightVals == {0, 1}
Fields == UNION {ArraysOf(s, FieldVals) : s \in Shapes}
Weights == UNION {ArraysOf(s, WeightVals) : s \in Shapes}

ApplyFuncToLabels ==
  /\ Idle
  /\ \E f \in Fields, func \in Funcs :
       /\ call' = [op |-> "apply_func_to_labels", labels |-> labels, field |-> f,
                   func |-> func]
       /\ result' = apply_func_to_labels(labels, f, func)
  /\ UNCHANGED labels

ApplyWeightedFuncToLabels ==
  /\ Idle
  /\ \E f \in Fields, w \in Weights, func \in WeightedFuncs :
       /\ call' = [op |-> "apply_weighted_func_to_labels", labels |-> labels,
                   field |-> f, weights |-> w, func |-> func]
       /\ result' = apply_weighted_func_to_labels(labels, f, w, func)
  /\ UNCHANGED labels

NextApply == ApplyFuncToLabels

SpecApply == Init /\ [][NextApply]_vars

NextPartition == ApplyFuncToLabels \/ ApplyWeightedFuncToLabels

SpecPartition == Init /\ [][NextPartition]_vars

\* ================================================================ claims
\* the labels (positive identities) that occur in an array
Present(a) == {a.data[p] : p \in 1..Len(a.data)} \ {0}
Cells(a) == 1..Len(a.data)
Contiguous(a) == Present(a) = 1..Cardinality(Present(a))

NewFilters ==
  {"filter_labels_by_length", "filter_labels_by_mask", "filter_labels_by_length_and_mask",
   "filter_labels_by_multimask", "filter_labels_by_length_and_multimask"}
MultiFilters ==
  {"filter_labels_by_multimask", "filter_labels_by_length_and_multimask",
   "filter_labels_by_length_and_multimask_legacy"}

\* out is inp with some labels removed and the others renumbered 1..K in order
Renumbered(inp, out) ==
  /\ out.shape = inp.shape
  /\ Present(out) = 1..Cardinality(Present(out))
  /\ Cardinality(Present(out)) <= Cardinality(Present(inp))
  /\ \A p \in Cells(inp) : inp.data[p] = 0 => out.data[p] = 0
  /\ \A p, q \in Cells(inp) : inp.data[p] = inp.data[q] => out.data[p] = out.data[q]
  /\ \A p, q \in Cells(inp) :
       (out.data[p] # 0 /\ out.data[q] # 0 /\ inp.data[p] < inp.data[q])
         => out.data[p] < out.data[q]

\* C1: every filter, given any label array (label values need not be
\* contiguous) and a list of masks where it takes one, returns the array with
\* some labels set to 0 and the surviving labels renumbered 1..K in their
\* original order, K at most the number of input labels.
C1_FiltersRenumber ==
  (call.op \in NewFilters /\ (call.op \in MultiFilters => call.masks.type = "list"))
    => (result.kind = "return" /\ Renumbered(call.labels, result.value))

\* number of kept labels among 1..l
KeptUpTo(keep, l) == Cardinality({j \in 1..l : keep[j]})

\* C2: remap_labels with a keep mask of length max(labels) maps every element of
\* a kept label l to the number of kept labels among 1..l, every element of
\* another label to 0 and 0 to 0; remapping the result again with an all-true
\* keep mask returns it unchanged.
C2_RemapLabels ==
  (call.op = "remap_labels" /\ Len(call.locations) = nanmax(call.labels))
    => /\ result.kind = "return"
       /\ result.value.shape = call.labels.shape
       /\ \A p \in Cells(call.labels) :
            LET l == call.labels.data[p]
            IN  result.value.data[p] =
                  (IF l >= 1 /\ call.locations[l] THEN KeptUpTo(call.locations, l) ELSE 0)
       /\ call.again => result.value = call.labels

\* a second remap of an array from which the first remap removed a label and
\* kept two
C2_Witness ==
  /\ call.op = "remap_labels" /\ call.again /\ result.kind = "return"
  /\ \E l \in 1..Len(call.first) : ~call.first[l]
  /\ Cardinality(Present(result.value)) >= 2

\* some element of label l lies where mask is true
Overlaps(a, mask, l) == \E p \in Cells(a) : a.data[p] = l /\ mask.data[p]
\* every element of input label l is nonzero / zero in out
KeptIn(inp, out, l) == \A p \in Cells(inp) : inp.data[p] = l => out.data[p] # 0
RemovedIn(inp, out, l) == \A p \in Cells(inp) : inp.data[p] = l => out.data[p] = 0
\* number of steps between the first and the last time step holding label l
Extent(a, l) ==
  LET ts == {AxisIndex(a.shape, 0, p) : p \in {q \in Cells(a) : a.data[q] = l}}
  IN  SetMax(ts) - SetMin(ts) + 1

\* C3: filter_labels_by_mask returns the array in which a label is kept iff
\* some element of it lies where mask is true; an all-true mask gives back the
\* input, an all-false mask gives all zeros.
C3_FilterByMask ==
  call.op = "filter_labels_by_mask"
    => /\ result.kind = "return"
       /\ \A l \in Present(call.labels) :
            IF Overlaps(call.labels, call.mask, l)
            THEN KeptIn(call.labels, result.value, l)
            ELSE RemovedIn(call.labels, result.value, l)
       /\ (\A p \in Cells(call.mask) : call.mask.data[p]) => result.value = call.labels
       /\ (\A p \in Cells(call.mask) : ~call.mask.data[p])
            => \A p \in Cells(call.labels) : result.value.data[p] = 0

\* the two single filters applied one after the other
LengthThenMask(a, mask, ml, nan_int) ==
  LET r == filter_labels_by_length(a, ml)
  IN  IF r.kind = "raise" THEN r ELSE filter_labels_by_mask(r.value, mask, nan_int)
MaskThenLength(a, mask, ml, nan_int) ==
  LET r == filter_labels_by_mask(a, mask, nan_int)
  IN  IF r.kind = "raise" THEN r ELSE filter_labels_by_length(r.value, ml)

\* C4: filter_labels_by_length_and_mask keeps a label iff its extent along the
\* time axis is at least min_length and it overlaps the mask, and its outcome
\* is that of filter_labels_by_length and filter_labels_by_mask applied one
\* after the other, in either order.
C4_LengthAndMask ==
  call.op = "filter_labels_by_length_and_mask"
    => /\ result.kind = "return" =>
            \A l \in Present(call.labels) :
              IF Extent(call.labels, l) >= call.min_length
                 /\ Overlaps(call.labels, call.mask, l)
              THEN KeptIn(call.labels, result.value, l)
              ELSE RemovedIn(call.labels, result.value, l)
       /\ \A c \in NanToInt :
            /\ result = LengthThenMask(call.labels, call.mask, call.min_length, c)
            /\ result = MaskThenLength(call.labels, call.mask, call.min_length, c)

C6_Multimask ==
  (call.op = "filter_labels_by_multimask" /\ call.masks.type = "list"
     /\ result.kind = "return")
    => /\ \A l \in Present(call.labels) :
            IF \A k \in 1..Len(call.masks.items) :
                 Overlaps(call.labels, call.masks.items[k], l)
            THEN KeptIn(call.labels, result.value, l)
            ELSE RemovedIn(call.labels, result.value, l)
       /\ \A p, q \in Cells(call.labels) :
            (call.labels.data[p] # call.labels.data[q]
               /\ result.value.data[p] # 0 /\ result.value.data[q] # 0)
              => result.value.data[p] # result.value.data[q]

InvalidMasks(r) ==
  /\ r.kind = "raise" /\ r.exc = "ValueError"
  /\ r.msg = "masks input must be a list of masks to process"

\* C7 as stated: a multi-mask filter raises the invalid-argument error exactly
\* when masks is not an ordered collection of masks (a list or a tuple), and
\* the label array is unchanged when it does.
C7_OrderedCollections ==
  call.op \in MultiFilters
    => /\ InvalidMasks(result) <=> call.masks.type \notin {"list", "tuple"}
       /\ InvalidMasks(result) => labels = call.labels

\* C7 amended: a multi-mask filter raises the invalid-argument error exactly
\* when masks is not a list (a tuple of masks is rejected as well), and the
\* label array is unchanged when it does.
C7_ListsOnly ==
  call.op \in MultiFilters
    => /\ InvalidMasks(result) <=> call.masks.type # "list"
       /\ InvalidMasks(result) => labels = call.labels

\* the in-place filter rejecting a tuple of masks for an array that has labels
C7_Witness ==
  /\ call.op = "filter_labels_by_length_and_multimask_legacy"
  /\ call.masks.type = "tuple" /\ Len(call.masks.items) = 2
  /\ InvalidMasks(result)
  /\ Present(labels) # {} /\ labels = call.labels

ApplyOps == {"apply_func_to_labels", "apply_weighted_func_to_labels"}

\* C8: apply_func_to_labels and apply_weighted_func_to_labels raise ValueError,
\* without having invoked the reducer, whenever the shape of labels differs
\* from the shape of field or (weighted) of weights.
C8_ShapeMismatch ==
  (/\ call.op \in ApplyOps
   /\ \/ call.labels.shape # call.field.shape
      \/ (call.op = "apply_weighted_func_to_labels"
            /\ call.labels.shape # call.weights.shape))
    => (result.kind = "raise" /\ result.exc = "ValueError" /\ result.calls = <<>>)

\* the cells of label l, and the bag of the field values on them
Members(a, l) == {p \in Cells(a) : a.data[p] = l}
FieldBag(f, ps) ==
  [v \in {f.data[p] : p \in ps} |-> Cardinality({p \in ps : f.data[p] = v})]
SeqBag(vs) ==
  [v \in {vs[k] : k \in 1..Len(vs)} |-> Cardinality({k \in 1..Len(vs) : vs[k] = v})]

\* one result per label 1..max(labels): the reducer's value on exactly the
\* field values of the label's cells, None (reducer not invoked) for a label
\* without cells
PartitionResults ==
  /\ result.kind = "return"
  /\ Len(result.value) = nanmax(call.labels)
  /\ Len(result.calls) = Cardinality(Present(call.labels))
  /\ \A l \in 1..nanmax(call.labels) :
       IF Members(call.labels, l) = {}
       THEN /\ result.value[l] = None
            /\ \A j \in 1..Len(result.calls) : result.calls[j].i + 1 # l
       ELSE \E j \in 1..Len(result.calls) :
              /\ result.calls[j].i + 1 = l
              /\ SeqBag(result.calls[j].values) = FieldBag(call.field, Members(call.labels, l))
              /\ result.value[l] = Some(apply(call.func, result.calls[j].values))

SameShapeApply ==
  call.op = "apply_func_to_labels" /\ call.labels.shape = call.field.shape

\* C9 as stated: apply_func_to_labels returns one result per label
\* 1..max(labels), the reducer applied to exactly the label's field values and
\* None for a label without cells, and with the reducer count the results are
\* the per-label counts of a histogram of labels.
C9_Partition ==
  SameShapeApply
    => /\ PartitionResults
       /\ call.func = "count" =>
            \A l \in 1..nanmax(call.labels) :
              result.value[l] = Some(Cardinality(Members(call.labels, l)))

\* C9 amended: as stated, except that with the reducer count the result equals
\* the histogram count only for a label that has cells; for a label without
\* cells the result is None where the histogram has 0.
C9_PartitionPresent ==
  SameShapeApply
    => /\ PartitionResults
       /\ call.func = "count" =>
            \A l \in 1..nanmax(call.labels) :
              result.value[l] =
                (IF Members(call.labels, l) = {} THEN None
                 ELSE Some(Cardinality(Members(call.labels, l))))

\* count over an array with background, an absent label and a label of two cells
C9_Witness ==
  /\ SameShapeApply /\ call.func = "count" /\ result.kind = "return"
  /\ \E p \in Cells(call.labels) : call.labels.data[p] = 0
  /\ \E l \in 1..Len(result.value) : result.value[l] = None
  /\ \E l \in 1..Len(result.value) : result.value[l] = Some(2)

\* C10: each legacy in-place filter ends as the corresponding filter does on
\* the same arguments: the same error, or the caller's array overwritten with
\* exactly the array the new filter returns.
C10_LegacySame ==
  LET same(r) == result = r /\ (r.kind = "return" => labels = r.value)
  IN  /\ call.op = "filter_labels_by_length_legacy"
        => same(filter_labels_by_length(call.labels, call.min_length))
      /\ call.op = "filter_labels_by_length_and_mask_legacy"
        => same(filter_labels_by_length_and_mask(call.labels, call.mask, call.min_length))
      /\ call.op = "filter_labels_by_length_and_multimask_legacy"
        => same(filter_labels_by_length_and_multimask(call.labels, call.masks,
                                                      call.min_length))

\* ===================================== detection (src/tobac_flow/detection.py)
\* The arrays of detection.py are three-dimensional, (t, y, x).  The optical
\* flow engine `flow` (its label, sobel and watershed primitives) is outside
\* src/ and is modelled from its interface.

\* Computed data is written [p \in 1..n |-> e] \o <<>>: the explicit tuple of
\* the n elements.

\* (t, y, x) of flat position p
Coord(shape, p) ==
  <<(p - 1) \div (shape[2] * shape[3]), ((p - 1) \div shape[3]) % shape[2],
    (p - 1) % shape[3]>>

\* structuring elements, as the set of offsets of their set elements from
\* the centre: ndi.generate_binary_structure(2,1)[np.newaxis] (the in-plane
\* cross) and np.ones([1,3,3]) (the in-plane square); both are symmetric
s_struct == {<<0, 0, 0>>, <<0, -1, 0>>, <<0, 1, 0>>, <<0, 0, -1>>, <<0, 0, 1>>}
ones_struct == {<<0, dy, dx>> : dy \in -1..1, dx \in -1..1}

\* element of a boolean array at offset o from flat position p,
\* border_value outside the array
At(a, p, o, border_value) ==
  LET c == Coord(a.shape, p)
  IN  IF \A k \in 1..3 : c[k] + o[k] >= 0 /\ c[k] + o[k] < a.shape[k]
      THEN a.data[p + (o[1] * a.shape[2] + o[2]) * a.shape[3] + o[3]]
      ELSE border_value

erode_once(input, structure, border_value) ==
  [shape |-> input.shape,
   data |-> [p \in 1..Len(input.data) |->
              \A o \in structure : At(input, p, o, border_value)] \o <<>>]

\* ndi.binary_erosion(input, structure, iterations, border_value)
RECURSIVE binary_erosion(_, _, _, _)
binary_erosion(input, structure, iterations, border_value) ==
  IF iterations = 0 THEN input
  ELSE binary_erosion(erode_once(input, structure, border_value), structure,
                      iterations - 1, border_value)

\* ndi.binary_dilation(input, structure), border_value 0
binary_dilation(input, structure) ==
  [shape |-> input.shape,
   data |-> [p \in 1..Len(input.data) |->
              \E o \in structure : At(input, p, o, FALSE)]
             \o <<>>]

\* ndi.binary_opening(input, structure): erosion then dilation, border_value 0
binary_opening(input, structure) ==
  binary_dilation(binary_erosion(input, structure, 1, FALSE), structure)

\* elementwise comparisons: a != 0, a == v, a >= v
nonzero(a) ==
  [shape |-> a.shape, data |-> [p \in 1..Len(a.data) |-> a.data[p] # 0] \o <<>>]
equal_to(a, v) ==
  [shape |-> a.shape, data |-> [p \in 1..Len(a.data) |-> a.data[p] = v] \o <<>>]
at_least(a, v) ==
  [shape |-> a.shape, data |-> [p \in 1..Len(a.data) |-> a.data[p] >= v] \o <<>>]
IntMax(x, y) == IF x >= y THEN x ELSE y
IntMin2(x, y) == IF x <= y THEN x ELSE y

\* np.maximum(np.minimum(field, upper_threshold), lower_threshold)
clip_field(field, upper_threshold, lower_threshold) ==
  [shape |-> field.shape,
   data |-> [p \in 1..Len(field.data) |->
              IntMax(IntMin2(field.data[p], upper_threshold), lower_threshold)] \o <<>>]

\* field[markers != 0] = upper_threshold
seed_field(field, markers, upper_threshold) ==
  [shape |-> field.shape,
   data |-> [p \in 1..Len(field.data) |->
              IF markers.data[p] # 0 THEN upper_threshold ELSE field.data[p]] \o <<>>]

\* default of the erode_distance parameter
erode_distance == 5

\* mask = ndi.binary_erosion(field == lower_threshold, structure=np.ones([1,3,3]),
\*                           iterations=erode_distance, border_value=1)
erosion_mask(field, lower_threshold) ==
  binary_erosion(equal_to(field, lower_threshold), ones_struct, erode_distance, TRUE)

\* flow.sobel(field, method='nearest'): in-plane edge strength, the array
\* continued by its nearest element outside its borders
Abs(x) == IF x >= 0 THEN x ELSE -x
sobel(field) ==
  LET v(p, o) ==
        LET c == Coord(field.shape, p)
            n == [k \in 1..3 |->
                   IF c[k] + o[k] < 0 THEN 0
                   ELSE IF c[k] + o[k] >= field.shape[k] THEN field.shape[k] - 1
                   ELSE c[k] + o[k]]
        IN  field.data[(n[1] * field.shape[2] + n[2]) * field.shape[3] + n[3] + 1]
  IN  [shape |-> field.shape,
       data |-> [p \in 1..Len(field.data) |->
                  Abs(v(p, <<0, 1, 0>>) - v(p, <<0, -1, 0>>))
                    + Abs(v(p, <<0, 0, 1>>) - v(p, <<0, 0, -1>>))] \o <<>>]

SeedLabels(markers) == {markers.data[p] : p \in 1..Len(markers.data)} \ {0}

\* flow.watershed(edges, markers, mask=mask, structure=structure,
\* debug_mode=verbose): the arrays the region growing can return.  Every seed
\* outside the mask keeps its label, every other element outside the mask is
\* left 0 or taken by one of the seed labels, nothing grows into the mask,
\* and debug_mode only prints diagnostics.
watershed(edges, markers, mask, debug_mode) ==
  {w \in [shape : {markers.shape},
          data : [1..Len(markers.data) -> {0} \cup SeedLabels(markers)]] :
     \A p \in 1..Len(markers.data) :
       /\ mask.data[p] => w.data[p] \in {0, markers.data[p]}
       /\ (~mask.data[p] /\ markers.data[p] # 0) => w.data[p] = markers.data[p]}

\* watershed + ndi.binary_opening(watershed != 0, structure=s_struct).astype(dtype)
opened_watershed_added(watershed_) ==
  LET opening == binary_opening(nonzero(watershed_), s_struct)
  IN  [shape |-> watershed_.shape,
       data |-> [p \in 1..Len(watershed_.data) |->
                  watershed_.data[p] + B2I(opening.data[p])] \o <<>>]
\* watershed * ndi.binary_opening(watershed != 0, structure=s_struct).astype(dtype)
opened_watershed(watershed_) ==
  LET opening == binary_opening(nonzero(watershed_), s_struct)
  IN  [shape |-> watershed_.shape,
       data |-> [p \in 1..Len(watershed_.data) |->
                  watershed_.data[p] * B2I(opening.data[p])] \o <<>>]

\* lines 139-156 of edge_watershed: the arrays flow.watershed can return for
\* the clipped and seeded field, its erosion mask and its edges
watershed_of(field, markers, upper_threshold, lower_threshold, verbose) ==
  LET seeded == seed_field(clip_field(field, upper_threshold, lower_threshold),
                           markers, upper_threshold)
  IN  watershed(sobel(seeded), markers, erosion_mask(seeded, lower_threshold), verbose)

\* edge_watershed(flow, field, markers, upper_threshold, lower_threshold,
\* verbose=verbose): the values it can return, one for every array the
\* watershed primitive can return
edge_watershed(field, markers, upper_threshold, lower_threshold, verbose) ==
  {[watershed |-> w, returned |-> Return(opened_watershed(w))] :
     w \in watershed_of(field, markers, upper_threshold, lower_threshold, verbose)}

\* ---------------------------------------------------------------- caller
\* one frame of 3 x 3 elements, the smallest grid on which the in-plane
\* cross fits, so that the final opening keeps something
GridShape == <<1, 3, 3>>
\* at most MaxSeeds seeded elements, all of one label
MaxSeeds == 2
SeedVals == {0, 2}
Markers ==
  {m \in ArraysOf(GridShape, SeedVals) :
     Cardinality({p \in 1..Prod(GridShape) : m.data[p] # 0}) <= MaxSeeds}
WFieldVals == {0, 2}
Thresholds == {0, 1}
\* fields that are constant or step up or down at the last column
WFields ==
  {[shape |-> GridShape,
    data |-> [p \in 1..Prod(GridShape) |->
               IF AxisIndex(GridShape, 2, p) < 2 THEN a ELSE b] \o <<>>] :
     a \in WFieldVals, b \in WFieldVals}

InitWatershed == labels \in Markers /\ call = [op |-> "none"] /\ result = NotCalled

EdgeWatershed ==
  /\ Idle
  /\ \E f \in WFields, up \in Thresholds, lo \in Thresholds, verbose \in BOOLEAN :
       \E r \in edge_watershed(f, labels, up, lo, verbose) :
         /\ call' = [op |-> "edge_watershed", field |-> f, markers |-> labels,
                     upper_threshold |-> up, lower_threshold |-> lo,
                     verbose |-> verbose, watershed |-> r.watershed]
         /\ result' = r.returned
  /\ UNCHANGED labels

NextWatershed == EdgeWatershed
SpecWatershed == InitWatershed /\ [][NextWatershed]_vars

\* C11: edge_watershed with all-zero markers returns an all-zero array for
\* every field and every pair of thresholds; every element of the result is
\* 0 or the label the watershed primitive gave that element; and what a call
\* returns with verbose set, the call with verbose cleared can return too
\* (and conversely).
C11_EdgeWatershed ==
  (call.op = "edge_watershed") =>
    /\ result.kind = "return"
    /\ result.value.shape = call.markers.shape
    /\ (SeedLabels(call.markers) = {} =>
          \A p \in 1..Len(result.value.data) : result.value.data[p] = 0)
    /\ \A p \in 1..Len(result.value.data) :
         result.value.data[p] \in {0, call.watershed.data[p]}
    /\ call.watershed \in watershed_of(call.field, call.markers, call.upper_threshold,
                                       call.lower_threshold, ~call.verbose)

\* a verbose call whose opening keeps some labelled elements and zeroes others
C11_Witness ==
  /\ call.op = "edge_watershed"
  /\ call.verbose
  /\ result.kind = "return"
  /\ \E p \in 1..Len(result.value.data) : result.value.data[p] # 0
  /\ \E p \in 1..Len(result.value.data) :
       call.watershed.data[p] # 0 /\ result.value.data[p] = 0

\* ------------------------------------------------- detect_growth_markers
\* the array a computed (lazy) array stands for, element by element
Forced(a) == [shape |-> a.shape, data |-> a.data \o <<>>]

\* the in-plane face neighbours of an element
plane_neighbours == {<<0, -1, 0>>, <<0, 1, 0>>, <<0, 0, -1>>, <<0, 0, 1>>}

\* flow.label(data): connected-component labelling, flow-aware across time.
\* Elements of one frame are connected through their in-plane faces; the
\* same element of two successive frames t, t + 1 (0-based) is connected
\* when the motion between the two frames, links[t + 1], keeps it in place.
\* One sweep gives every set element the smallest root among itself and its
\* connected set neighbours.
label_sweep(roots, links) ==
  [shape |-> roots.shape,
   data |-> [p \in 1..Len(roots.data) |->
              IF roots.data[p] = 0 THEN 0
              ELSE LET t == Coord(roots.shape, p)[1]
                       near == {At(roots, p, o, 0) : o \in plane_neighbours}
                       before == IF t > 0 /\ links[t]
                                 THEN {At(roots, p, <<-1, 0, 0>>, 0)} ELSE {}
                       after == IF t + 1 < roots.shape[1] /\ links[t + 1]
                                THEN {At(roots, p, <<1, 0, 0>>, 0)} ELSE {}
                   IN  SetMin(({roots.data[p]} \cup near \cup before \cup after) \ {0})]
             \o <<>>]

RECURSIVE label_roots(_, _)
label_roots(roots, links) ==
  LET swept == label_sweep(roots, links)
  IN  IF swept = roots THEN roots ELSE label_roots(swept, links)

\* the components numbered 1..N in the order of their first element
label(data, links) ==
  LET first == [shape |-> data.shape,
                data |-> [p \in 1..Len(data.data) |-> IF data.data[p] THEN p ELSE 0]
                           \o <<>>]
      roots == label_roots(first, links)
      found == {roots.data[p] : p \in 1..Len(roots.data)} \ {0}
  IN  [shape |-> data.shape,
       data |-> [p \in 1..Len(data.data) |->
                  IF roots.data[p] = 0 THEN 0
                  ELSE Cardinality({r \in found : r <= roots.data[p]})] \o <<>>]

\* wvd_diff_filtered is in units of 0.25: the cutoffs 0.5 and 0.25 are 2 and 1
\* wvd_diff_filtered >= 0.5
coarse_cutoff(wvd_diff_filtered) == at_least(wvd_diff_filtered, 2)
\* ndi.binary_opening(wvd_diff_filtered >= 0.25, structure=s_struct)
refined_cutoff(wvd_diff_filtered) ==
  binary_opening(at_least(wvd_diff_filtered, 1), s_struct)
\* wvd >= -5
validity(wvd) == at_least(wvd, -5)

\* detect_growth_markers without the overlap stage of line 72
detect_growth_markers_unanchored(links, wvd, wvd_diff_filtered) ==
  LET coarse == label(coarse_cutoff(wvd_diff_filtered), links)
      refined == label(refined_cutoff(wvd_diff_filtered), links)
      made == [coarse |-> coarse, refined |-> refined]
      watershed_markers == filter_labels_by_length_and_mask(coarse, validity(wvd), 3)
  IN  IF watershed_markers.kind = "raise"
      THEN [made |-> [coarse |-> coarse, refined |-> NotCalled],
            returned |-> watershed_markers]
      ELSE LET valid == filter_labels_by_length_and_mask(refined, validity(wvd), 3)
           IN  [made |-> made,
                returned |-> IF valid.kind = "raise" THEN valid
                             ELSE Return(Forced(valid.value))]
\* detect_growth_markers(flow, wvd) from wvd_diff_filtered on: the label
\* arrays flow.label made and what the call returns (marker_labels) or
\* raises; an exception of a filter ends the call where it is raised
detect_growth_markers(links, wvd, wvd_diff_filtered) ==
  LET coarse == label(coarse_cutoff(wvd_diff_filtered), links)
      refined == label(refined_cutoff(wvd_diff_filtered), links)
      made == [coarse |-> coarse, refined |-> refined]
      watershed_markers == filter_labels_by_length_and_mask(coarse, validity(wvd), 3)
  IN  IF watershed_markers.kind = "raise"
      THEN [made |-> [coarse |-> coarse, refined |-> NotCalled],
            returned |-> watershed_markers]
      ELSE LET anchors == nonzero(watershed_markers.value)
               anchored == filter_labels_by_length_and_mask(refined, anchors, 3)
           IN  IF anchored.kind = "raise"
               THEN [made |-> made, returned |-> anchored]
               ELSE LET valid == filter_labels_by_length_and_mask(
                                   Forced(anchored.value), validity(wvd), 3)
                    IN  [made |-> made,
                         returned |-> IF valid.kind = "raise" THEN valid
                                      ELSE Return(Forced(valid.value))]

\* ---------------------------------------------------------------- caller
\* Steps frames of 3 x 3 elements
Steps == 4
MovieShape == <<Steps, 3, 3>>
\* one frame of wvd_diff_filtered: a cross at 0.25 (in no coarse label), the
\* whole frame at 0.5, or the centre alone at 0.5 (which the opening removes)
Frames ==
  {<<0, 1, 0, 1, 1, 1, 0, 1, 0>>, <<2, 2, 2, 2, 2, 2, 2, 2, 2>>,
   <<0, 0, 0, 0, 2, 0, 0, 0, 0>>}
Movie(frames) ==
  [shape |-> MovieShape,
   data |-> [p \in 1..Prod(MovieShape) |->
              frames[((p - 1) \div 9) + 1][((p - 1) % 9) + 1]] \o <<>>]
DiffFields == {Movie(fs) : fs \in [1..Steps -> Frames]}
\* wvd below (-6) or at (-5) the validity floor, frame by frame
WvdVals == {-6, -5}
WvdFields == {Movie([t \in 1..Steps |-> [k \in 1..9 |-> lv[t]]]) : lv \in [1..Steps -> WvdVals]}
\* the motion between successive frames: links[t] is whether frame t + 1
\* (1-based) continues frame t in place
Flows == [1..(Steps - 1) -> BOOLEAN]

NoLabels == [shape |-> <<1>>, data |-> <<0>>]
InitDetect == labels = NoLabels /\ call = [op |-> "none"] /\ result = NotCalled

DetectGrowthMarkers ==
  /\ Idle
  /\ \E flow \in Flows, wvd \in WvdFields, diff \in DiffFields :
       \E r \in {detect_growth_markers(flow, wvd, diff)} :
           /\ call' = [op |-> "detect_growth_markers", flow |-> flow, wvd |-> wvd,
                       wvd_diff_filtered |-> diff, coarse |-> r.made.coarse,
                       refined |-> r.made.refined]
           /\ result' = r.returned
  /\ UNCHANGED labels

NextDetect == DetectGrowthMarkers
SpecDetect == InitDetect /\ [][NextDetect]_vars

\* C12: when detect_growth_markers returns, every marker label of the
\* returned array (a) spans at least 3 time steps, (b) has an element where
\* wvd is at or above the validity floor -5, and (c) has an element inside a
\* coarse label that itself spans at least 3 time steps and has an element
\* where wvd is at or above the floor; and the returned labels are 1..K.
C12_GrowthMarkers ==
  (call.op = "detect_growth_markers" /\ result.kind = "return") =>
    /\ result.value.shape = call.wvd.shape
    /\ Contiguous(result.value)
    /\ \A l \in Present(result.value) :
         /\ Extent(result.value, l) >= 3
         /\ \E p \in Cells(call.wvd) : result.value.data[p] = l /\ call.wvd.data[p] >= -5
         /\ \E p \in Cells(call.wvd) :
              /\ result.value.data[p] = l
              /\ call.coarse.data[p] # 0
              /\ Extent(call.coarse, call.coarse.data[p]) >= 3
              /\ \E q \in Cells(call.wvd) :
                   call.coarse.data[q] = call.coarse.data[p] /\ call.wvd.data[q] >= -5

\* a call that returns a marker label after the stages removed another
\* refined label
C12_Witness ==
  /\ call.op = "detect_growth_markers"
  /\ result.kind = "return"
  /\ Present(result.value) # {}
  /\ Cardinality(Present(call.refined)) > Cardinality(Present(result.value))
====
